---- MODULE Spec2Model ----
(***************************************************************************)
(* Model of AuthClient (src/src/client.rs): the response resolution done   *)
(* by every network operation and the single cached session cell.          *)
(*                                                                         *)
(* One action per public operation.  An action is the whole handler: the   *)
(* header construction, the payload serialization, the HTTP exchange, the  *)
(* resolution of status and body, and the write to the session cell.       *)
(* The server's answer (status, body), the outcome of the transport and    *)
(* the caller's arguments are the inputs, drawn from small sets.           *)
(***************************************************************************)
EXTENDS Integers, Sequences, FiniteSets, TLC

VARIABLES
    project_url, \* AuthClient.project_url, a byte string, fixed at construction
    api_key,    \* AuthClient.api_key, a byte string, fixed at construction
    jwt_secret, \* AuthClient.jwt_secret, a byte string, fixed at construction
    session,    \* AuthClient.session, the RefCell<Option<Session>>
    last,       \* the most recent call: its inputs, the cell before it, its result
    lastAuth,   \* history: session returned by the latest successful
                \* authentication or refresh not followed by a successful logout
    tasks,      \* futures of handlers in flight on the client, by task
    polling,    \* the task being polled (running between two awaits), 0 if none
    borrow,     \* borrow state of the session RefCell: "free" or "mut"
    panicked,   \* a borrow of the session RefCell has panicked
    startedOrder,  \* history: the tasks in the order they were started
    resolvedOrder, \* history: the tasks in the order their response body arrived
    observed    \* what the caller's latest session() returned

concVars ==
    <<tasks, polling, borrow, panicked, startedOrder, resolvedOrder, observed>>

vars == <<project_url, api_key, jwt_secret, session, last, lastAuth,
          tasks, polling, borrow, panicked, startedOrder, resolvedOrder, observed>>

(***************************************************************************)
(* Values                                                                  *)
(***************************************************************************)
\* Option::None of the session cell
None == "None"

\* Err(_) of serde_json::from_str
Fail == "Fail"

\* HTTP status codes the server may answer with
Statuses == {200, 302, 404, 500}

\* StatusCode::is_success
is_success(status) == status >= 200 /\ status < 300

\* StatusCode::is_client_error
is_client_error(status) == status >= 400 /\ status < 500

\* StatusCode::is_server_error
is_server_error(status) == status >= 500 /\ status < 600

\* A response body: its text and what serde_json::from_str::<T> makes of it
\* for each T the client parses (Fail when the parse fails).
Body(text, sess, user, conf, otp, health, settings, err) ==
    [text |-> text, session |-> sess, user |-> user, confirmation |-> conf,
     otp |-> otp, health |-> health, settings |-> settings, error |-> err]

Bodies ==
    { Body("{session s1}", "s1", Fail, Fail, Fail, Fail, Fail, Fail),
      Body("{session s2, message M}", "s2", Fail, Fail, Fail, Fail, Fail, "M"),
      Body("{user u1}", Fail, "u1", Fail, Fail, Fail, Fail, Fail),
      Body("{confirmation c1}", Fail, Fail, "c1", Fail, Fail, Fail, Fail),
      Body("{message_id o1}", Fail, Fail, Fail, "o1", Fail, Fail, Fail),
      Body("{health h1}", Fail, Fail, Fail, Fail, "h1", Fail, Fail),
      Body("{settings g1}", Fail, Fail, Fail, Fail, Fail, "g1", Fail),
      Body("{message X}", Fail, Fail, Fail, Fail, Fail, Fail, "X"),
      Body("<html>oops</html>", Fail, Fail, Fail, Fail, Fail, Fail, Fail) }

\* no body was read
NoBody == Body("", Fail, Fail, Fail, Fail, Fail, Fail, Fail)

\* from_str::<Session>(&res_body)
FromStrSession(body) == body.session

\* from_str::<User>(&res_body)
FromStrUser(body) == body.user

\* from_str::<EmailSignUpConfirmation>(&res_body)
FromStrConfirmation(body) == body.confirmation

\* serde_json::from_str::<OTPResponse>(&res_body)
FromStrOTPResponse(body) == body.otp

\* from_str::<AuthServerHealth>(&res_body)
FromStrHealth(body) == body.health

\* from_str::<AuthServerSettings>(&res_body)
FromStrSettings(body) == body.settings

\* from_str::<SupabaseHTTPError>(&res_body), giving error.message
FromStrError(body) == body.error

\* api keys and bearer tokens, as byte strings: one valid in a header value,
\* one holding a line feed
ApiKeys == { <<107, 101, 121>>, <<107, 10>> }

BearerTokens == { <<116, 111, 107>>, <<116, 13>> }

\* project URLs: "h://p", which parses as a URL, and "p", which has no scheme
ProjectUrls == { <<104, 58, 47, 47, 112>>, <<112>> }

\* the signing secret: "s"
JwtSecrets == { <<115>> }

\* ASCII letter
IsAlpha(b) == (b >= 65 /\ b <= 90) \/ (b >= 97 /\ b <= 122)

\* ASCII digit
IsDigit(b) == b >= 48 /\ b <= 57

\* Url::parse(s).is_ok(), as far as the scheme goes: an absolute URL starts
\* with a letter, then letters, digits, '+', '-', '.', then ':'
UrlParseOk(s) ==
    \E i \in 2..Len(s) :
        /\ s[i] = 58
        /\ IsAlpha(s[1])
        /\ \A j \in 2..(i - 1) :
               IsAlpha(s[j]) \/ IsDigit(s[j]) \/ s[j] \in {43, 45, 46}

\* "Bearer " of format!("Bearer {}", bearer_token)
BearerPrefix == <<66, 101, 97, 114, 101, 114, 32>>

\* HeaderValue::from_str(s).is_ok(): visible ASCII, space and tab, no DEL
HeaderValueOk(s) ==
    \A i \in 1..Len(s) : (s[i] >= 32 /\ s[i] # 127) \/ s[i] = 9

\* HeaderValue::from_str(&format!("Bearer {}", bearer_token)).is_ok()
BearerHeaderOk(token) == HeaderValueOk(BearerPrefix \o token)

\* What happens to one call once its headers are built: the payload fails
\* to serialize, send() fails, text() fails, or a response (status, body)
\* is read in full.
Exchange(io, status, body) == [io |-> io, status |-> status, body |-> body]

Exchanges ==
    { Exchange("ok", status, body) : status \in Statuses, body \in Bodies }
    \cup { Exchange(io, 0, NoBody) : io \in {"ser_fail", "send_fail", "text_fail"} }

\* the exchanges of a call: none past a header that cannot be built, no
\* serialization failure for a request without a payload, and no response
\* when the request URL does not parse (send() returns the builder's error)
Attempts(hdrOk, payload) ==
    IF ~hdrOk THEN { Exchange("none", 0, NoBody) }
    ELSE { x \in Exchanges :
             /\ payload \/ x.io # "ser_fail"
             /\ UrlParseOk(project_url) \/ x.io \in {"ser_fail", "send_fail"} }

\* LogoutScope, wrapped in Option
Scopes == {"None", "global"}

\* final URLs of the sso exchange
Urls == {"https://idp/login", "https://project/auth/v1/sso"}

(***************************************************************************)
(* Results                                                                 *)
(***************************************************************************)
Result(kind, variant, value, status, message) ==
    [kind |-> kind, variant |-> variant, value |-> value,
     status |-> status, message |-> message]

\* Ok(value)
Ok(value) == Result("Ok", "", value, 0, "")

\* Ok(EmailSignUpResult::<variant>(value))
OkVariant(variant, value) == Result("Ok", variant, value, 0, "")

\* Err(Error::AuthError { status, message })
AuthError(status, message) == Result("AuthError", "", "", status, message)

\* Err from HeaderValue::from_str(..)?
HeaderError == Result("InvalidHeaderValue", "", "", 0, "")

\* Err from serde_json::to_string(..)? or serde_json::from_str(..)?
SerdeError == Result("SerdeJson", "", "", 0, "")

\* Err from .send().await? or .text().await?
TransportError == Result("Reqwest", "", "", 0, "")

\* what a handler leaves behind: its return value and the session cell
Out(result, sess) == [result |-> result, session |-> sess]

\* a handler that drops the result of the header construction
Run_unchecked(hdrOk, io, cur, resolved) ==
    IF io = "ser_fail" THEN Out(SerdeError, cur)
    ELSE IF io \in {"send_fail", "text_fail"} THEN Out(TransportError, cur)
    ELSE resolved

\* The part every handler runs before it resolves the response: the `?`
\* on the headers, on the payload, on send() and on text().  `resolved` is
\* what the handler does once it holds status and body.
Run(hdrOk, io, cur, resolved) ==
    IF ~hdrOk THEN Out(HeaderError, cur)
    ELSE IF io = "ser_fail" THEN Out(SerdeError, cur)
    ELSE IF io \in {"send_fail", "text_fail"} THEN Out(TransportError, cur)
    ELSE resolved

\* a handler that sends the request again when send() fails
Sent_retry(hdrOk, io) ==
    IF hdrOk /\ io # "ser_fail" THEN (IF io = "send_fail" THEN 2 ELSE 1) ELSE 0

\* number of HTTP requests the handler has sent
Sent(hdrOk, io) == IF hdrOk /\ io # "ser_fail" THEN 1 ELSE 0

\* if let Ok(error) = from_str::<SupabaseHTTPError>(..) { AuthError{message:
\* error.message} }, and the fallback AuthError{message: res_body}
ErrorOf(status, body) ==
    IF FromStrError(body) # Fail
    THEN AuthError(status, FromStrError(body))
    ELSE AuthError(status, body.text)

(***************************************************************************)
(* Resolution of status and body, per operation.  cur is the session cell  *)
(* when the handler reaches its resolution.                                *)
(***************************************************************************)
\* login_with_email: success shape first, the cell written on success
login_with_email_resolve(cur, status, body) ==
    IF FromStrSession(body) # Fail
    THEN Out(Ok(FromStrSession(body)), FromStrSession(body))
    ELSE Out(ErrorOf(status, body), cur)

\* login_with_phone returning the session without caching it
login_with_phone_resolve_nocache(cur, status, body) ==
    IF FromStrSession(body) # Fail
    THEN Out(Ok(FromStrSession(body)), cur)
    ELSE Out(ErrorOf(status, body), cur)

\* login_with_phone
login_with_phone_resolve(cur, status, body) ==
    IF FromStrSession(body) # Fail
    THEN Out(Ok(FromStrSession(body)), FromStrSession(body))
    ELSE Out(ErrorOf(status, body), cur)

\* sign_up_with_email_and_password: a session, else a confirmation; the
\* cell is not written
sign_up_with_email_and_password_resolve(cur, status, body) ==
    IF FromStrSession(body) # Fail
    THEN Out(OkVariant("SessionResult", FromStrSession(body)), cur)
    ELSE IF FromStrConfirmation(body) # Fail
    THEN Out(OkVariant("ConfirmationResult", FromStrConfirmation(body)), cur)
    ELSE Out(ErrorOf(status, body), cur)

\* sign_up_with_phone_and_password caching the session as the logins do
sign_up_with_phone_and_password_resolve_cache(cur, status, body) ==
    IF FromStrSession(body) # Fail
    THEN Out(Ok(FromStrSession(body)), FromStrSession(body))
    ELSE Out(ErrorOf(status, body), cur)

\* sign_up_with_phone_and_password: the cell is not written
sign_up_with_phone_and_password_resolve(cur, status, body) ==
    IF FromStrSession(body) # Fail
    THEN Out(Ok(FromStrSession(body)), cur)
    ELSE Out(ErrorOf(status, body), cur)

\* login_anonymously
login_anonymously_resolve(cur, status, body) ==
    IF FromStrSession(body) # Fail
    THEN Out(Ok(FromStrSession(body)), FromStrSession(body))
    ELSE Out(ErrorOf(status, body), cur)

\* send_login_email_with_magic_link: by status
send_login_email_with_magic_link_resolve(cur, status, body) ==
    IF is_success(status)
    THEN Out(Ok("()"), cur)
    ELSE Out(ErrorOf(status, body), cur)

\* send_sms_with_otp: by status; on 2xx the body is parsed with `?`
send_sms_with_otp_resolve(cur, status, body) ==
    IF is_success(status)
    THEN IF FromStrOTPResponse(body) # Fail
         THEN Out(Ok(FromStrOTPResponse(body)), cur)
         ELSE Out(SerdeError, cur)
    ELSE Out(ErrorOf(status, body), cur)

\* send_email_with_otp: as send_sms_with_otp
send_email_with_otp_resolve(cur, status, body) ==
    IF is_success(status)
    THEN IF FromStrOTPResponse(body) # Fail
         THEN Out(Ok(FromStrOTPResponse(body)), cur)
         ELSE Out(SerdeError, cur)
    ELSE Out(ErrorOf(status, body), cur)

\* get_user that drops the cached session when the server rejects the token
get_user_resolve_drop(cur, status, body) ==
    IF FromStrUser(body) # Fail
    THEN Out(Ok(FromStrUser(body)), cur)
    ELSE Out(ErrorOf(status, body), None)

\* get_user
get_user_resolve(cur, status, body) ==
    IF FromStrUser(body) # Fail
    THEN Out(Ok(FromStrUser(body)), cur)
    ELSE Out(ErrorOf(status, body), cur)

\* update_user
update_user_resolve(cur, status, body) ==
    IF FromStrUser(body) # Fail
    THEN Out(Ok(FromStrUser(body)), cur)
    ELSE Out(ErrorOf(status, body), cur)

\* login_with_id_token
login_with_id_token_resolve(cur, status, body) ==
    IF FromStrSession(body) # Fail
    THEN Out(Ok(FromStrSession(body)), FromStrSession(body))
    ELSE Out(ErrorOf(status, body), cur)

\* invite_user_by_email
invite_user_by_email_resolve(cur, status, body) ==
    IF FromStrUser(body) # Fail
    THEN Out(Ok(FromStrUser(body)), cur)
    ELSE Out(ErrorOf(status, body), cur)

\* verify_otp: returns the session, the cell is not written
verify_otp_resolve(cur, status, body) ==
    IF FromStrSession(body) # Fail
    THEN Out(Ok(FromStrSession(body)), cur)
    ELSE Out(ErrorOf(status, body), cur)

\* get_health without the envelope parse: the raw body is always the message
get_health_resolve_rawmsg(cur, status, body) ==
    IF FromStrHealth(body) # Fail
    THEN Out(Ok(FromStrHealth(body)), cur)
    ELSE Out(AuthError(status, body.text), cur)

\* get_health
get_health_resolve(cur, status, body) ==
    IF FromStrHealth(body) # Fail
    THEN Out(Ok(FromStrHealth(body)), cur)
    ELSE Out(ErrorOf(status, body), cur)

\* get_settings
get_settings_resolve(cur, status, body) ==
    IF FromStrSettings(body) # Fail
    THEN Out(Ok(FromStrSettings(body)), cur)
    ELSE Out(ErrorOf(status, body), cur)

\* exchange_token_for_session: returns the session, the cell is not written
exchange_token_for_session_resolve(cur, status, body) ==
    IF FromStrSession(body) # Fail
    THEN Out(Ok(FromStrSession(body)), cur)
    ELSE Out(ErrorOf(status, body), cur)

\* reset_password_for_email that looks for an error envelope before the status
reset_password_for_email_resolve_bodyfirst(cur, status, body) ==
    IF FromStrError(body) # Fail
    THEN Out(AuthError(status, FromStrError(body)), cur)
    ELSE IF is_success(status)
    THEN Out(Ok("()"), cur)
    ELSE Out(AuthError(status, body.text), cur)

\* reset_password_for_email: by status
reset_password_for_email_resolve(cur, status, body) ==
    IF is_success(status)
    THEN Out(Ok("()"), cur)
    ELSE Out(ErrorOf(status, body), cur)

\* resend whose fallback drops the body text
resend_resolve_nobody(cur, status, body) ==
    IF is_success(status)
    THEN Out(Ok("()"), cur)
    ELSE IF FromStrError(body) # Fail
    THEN Out(AuthError(status, FromStrError(body)), cur)
    ELSE Out(AuthError(status, ""), cur)

\* resend: by status
resend_resolve(cur, status, body) ==
    IF is_success(status)
    THEN Out(Ok("()"), cur)
    ELSE Out(ErrorOf(status, body), cur)

\* logout that leaves the cell as it is
logout_resolve_keep(cur, status, body) ==
    IF is_success(status)
    THEN Out(Ok("()"), cur)
    ELSE Out(ErrorOf(status, body), cur)

\* logout that clears the cell before it looks at the status
logout_resolve_always(cur, status, body) ==
    IF is_success(status)
    THEN Out(Ok("()"), None)
    ELSE Out(ErrorOf(status, body), None)

\* logout: by status; the cell is cleared on 2xx
logout_resolve(cur, status, body) ==
    IF is_success(status)
    THEN Out(Ok("()"), None)
    ELSE Out(ErrorOf(status, body), cur)

\* sso that treats every status outside 2xx as an error
sso_resolve_non2xx(cur, status, body, url) ==
    IF ~is_success(status)
    THEN Out(ErrorOf(status, body), cur)
    ELSE Out(Ok(url), cur)

\* sso: an error on 4xx and 5xx, the final URL otherwise
sso_resolve(cur, status, body, url) ==
    IF is_server_error(status) \/ is_client_error(status)
    THEN Out(ErrorOf(status, body), cur)
    ELSE Out(Ok(url), cur)

(***************************************************************************)
(* OAuth URL construction                                                  *)
(***************************************************************************)
\* Option::None and Option::Some(x) of an argument
NoneOpt == <<>>

Some(x) == <<x>>

\* Provider
Providers == {"Github", "Google"}

\* provider.to_string()
ProviderToString(provider) ==
    IF provider = "Github"
    THEN <<103, 105, 116, 104, 117, 98>>
    ELSE <<103, 111, 111, 103, 108, 101>>

\* "provider"
KeyProvider == <<112, 114, 111, 118, 105, 100, 101, 114>>

\* "email_redirect_to"
KeyEmailRedirectTo ==
    <<101, 109, 97, 105, 108, 95, 114, 101, 100, 105, 114, 101, 99, 116, 95,
      116, 111>>

\* AUTH_V1 and the endpoint: "/auth/v1/authorize"
AuthorizePath ==
    <<47, 97, 117, 116, 104, 47, 118, 49, 47, 97, 117, 116, 104, 111, 114,
      105, 122, 101>>

\* keys a caller may put in LoginWithOAuthOptions.query_params: "provider",
\* "email_redirect_to" and "key"
ExtraKeys == { KeyProvider, KeyEmailRedirectTo, <<107, 101, 121>> }

\* the value stored under an extra key: "v"
ExtraValue == <<118>>

\* largest number of entries of query_params
MaxExtra == 1

\* a HashMap<String, String> in the order its iter() yields it: the keys
\* are distinct, the order is any
QueryParamMaps ==
    { [i \in DOMAIN ks |-> <<ks[i], ExtraValue>>] :
        ks \in { q \in UNION { [1..n -> ExtraKeys] : n \in 0..MaxExtra } :
                   \A i, j \in DOMAIN q : i # j => q[i] # q[j] } }

\* LoginWithOAuthOptions, with redirect_to "l/" and scopes "r g"
OAuthOptions ==
    [ query_params : {NoneOpt} \cup { Some(m) : m \in QueryParamMaps },
      redirect_to : {NoneOpt, Some(<<108, 47>>)},
      scopes : {NoneOpt, Some(<<114, 32, 103>>)} ]

\* Option<LoginWithOAuthOptions>
OAuthOptionArgs == {NoneOpt} \cup { Some(o) : o \in OAuthOptions }

\* hexadecimal digit, upper case
HexDigit(d) == IF d < 10 THEN 48 + d ELSE 55 + d

\* form_urlencoded::byte_serialize of one byte
EncodeByte(b) ==
    IF IsAlpha(b) \/ IsDigit(b) \/ b \in {42, 45, 46, 95} THEN <<b>>
    ELSE IF b = 32 THEN <<43>>
    ELSE <<37, HexDigit(b \div 16), HexDigit(b % 16)>>

\* form_urlencoded::byte_serialize
RECURSIVE byte_serialize(_)
byte_serialize(str) ==
    IF str = <<>> THEN <<>>
    ELSE EncodeByte(Head(str)) \o byte_serialize(Tail(str))

\* Serializer::extend_pairs: name=value, joined by '&'
RECURSIVE extend_pairs(_)
extend_pairs(pairs) ==
    IF pairs = <<>> THEN <<>>
    ELSE byte_serialize(pairs[1][1]) \o <<61>> \o byte_serialize(pairs[1][2])
         \o (IF Len(pairs) > 1 THEN <<38>> ELSE <<>>)
         \o extend_pairs(Tail(pairs))

\* Url::parse_with_params(input, pairs): NoneOpt when input does not parse
parse_with_params(input, pairs) ==
    IF ~UrlParseOk(input) THEN NoneOpt
    ELSE Some([location |-> input, query |-> extend_pairs(pairs)])

\* the query_params vector of login_with_oauth
login_with_oauth_params(provider, options) ==
    IF options = NoneOpt
    THEN << <<KeyProvider, ProviderToString(provider)>> >>
    ELSE LET o == options[1]
             params == << <<KeyProvider, ProviderToString(provider)>> >>
             redirected ==
                 IF o.redirect_to # NoneOpt
                 THEN Append(params, <<KeyEmailRedirectTo, o.redirect_to[1]>>)
                 ELSE params
         IN  IF o.query_params # NoneOpt
             THEN redirected \o o.query_params[1]
             ELSE redirected

\* Err(Error::ParseUrlError)
ParseUrlError == Result("ParseUrlError", "", "", 0, "")

\* login_with_oauth: Ok(OAuthResponse { url, provider }) or ParseUrlError
login_with_oauth_result(url, provider, options) ==
    LET parsed == parse_with_params(url \o AuthorizePath,
                                    login_with_oauth_params(provider, options))
    IN  IF parsed = NoneOpt THEN ParseUrlError
        ELSE Ok([url |-> parsed[1], provider |-> provider])

(***************************************************************************)
(* Token refresh                                                           *)
(***************************************************************************)
\* refresh tokens a caller may pass: "r" and "q"
RefreshTokens == { <<114>>, <<113>> }

\* the request of exchange_token_for_session: POST to the token endpoint
\* with the apikey and content-type headers and RefreshSessionPayload
exchange_token_for_session_request(url, key, refresh_token) ==
    [method |-> "POST", base |-> url,
     path |-> "/auth/v1/token?grant_type=refresh_token",
     apikey |-> key, content_type |-> "application/json",
     body |-> [refresh_token |-> refresh_token]]

\* exchange_token_for_session as a whole: the request it sends (none when
\* the headers or the payload fail), what it returns and the session cell
exchange_token_for_session_call(url, key, cur, refresh_token, x) ==
    [arg |-> [refresh_token |-> refresh_token,
              request |-> IF Sent(HeaderValueOk(key), x.io) = 1
                          THEN Some(exchange_token_for_session_request(
                                        url, key, refresh_token))
                          ELSE NoneOpt],
     sent |-> Sent(HeaderValueOk(key), x.io),
     out |-> Run(HeaderValueOk(key), x.io, cur,
                 exchange_token_for_session_resolve(cur, x.status, x.body))]

\* a refresh_session of its own that caches the refreshed session
refresh_session_call_cache(url, key, cur, refresh_token, x) ==
    [arg |-> [refresh_token |-> refresh_token,
              request |-> IF Sent(HeaderValueOk(key), x.io) = 1
                          THEN Some(exchange_token_for_session_request(
                                        url, key, refresh_token))
                          ELSE NoneOpt],
     sent |-> Sent(HeaderValueOk(key), x.io),
     out |-> Run(HeaderValueOk(key), x.io, cur,
                 login_with_email_resolve(cur, x.status, x.body))]

\* refresh_session: self.exchange_token_for_session(refresh_token).await
refresh_session_call(url, key, cur, refresh_token, x) ==
    exchange_token_for_session_call(url, key, cur, refresh_token, x)

(***************************************************************************)
(* Construction from the environment                                       *)
(***************************************************************************)
\* one variable of the process environment: unset, set to a string that
\* is not valid Unicode, or set to value
EnvVar(state, value) == [state |-> state, value |-> value]

\* the states of a variable that may hold one of the given values
EnvVarStates(values) ==
    { EnvVar("unset", <<>>), EnvVar("not_unicode", <<255>>) }
    \cup { EnvVar("set", v) : v \in values }

\* the environments new_from_env may run in
Environments ==
    [ SUPABASE_URL : EnvVarStates(ProjectUrls),
      SUPABASE_API_KEY : EnvVarStates(ApiKeys),
      SUPABASE_JWT_SECRET : EnvVarStates(JwtSecrets) ]

\* env::var(name).is_ok()
EnvVarOk(var) == var.state = "set"

\* Err(Error::from(e)) for the VarError e of env::var(name)?: NotPresent, or
\* NotUnicode with the value; the name of the variable is not part of it
VarError(var) ==
    IF var.state = "unset"
    THEN Result("VarError", "NotPresent", "", 0, "")
    ELSE Result("VarError", "NotUnicode", var.value, 0, "")

\* new_from_env: the first env::var that fails returns its error
new_from_env_result(env) ==
    IF ~EnvVarOk(env.SUPABASE_URL) THEN VarError(env.SUPABASE_URL)
    ELSE IF ~EnvVarOk(env.SUPABASE_API_KEY) THEN VarError(env.SUPABASE_API_KEY)
    ELSE IF ~EnvVarOk(env.SUPABASE_JWT_SECRET)
    THEN VarError(env.SUPABASE_JWT_SECRET)
    ELSE Ok("AuthClient")

(***************************************************************************)
(* Accessors                                                               *)
(***************************************************************************)
\* AuthClient::session()
session_get == session

\* AuthClient::is_authenticated()
is_authenticated == session # None

(***************************************************************************)
(* State machine                                                           *)
(***************************************************************************)
\* number of handlers in flight at once
MaxTasks == 2

Tasks == 1..MaxTasks

\* a handler's result while it has not returned
Pending == Result("Pending", "", "", 0, "")

\* a task that has not been started
IdleTask ==
    [op |-> "", bearer |-> <<>>, pc |-> "idle", status |-> 0,
     body |-> NoBody, result |-> Pending]

\* no handler in flight
ConcIdle ==
    /\ tasks = [t \in Tasks |-> IdleTask]
    /\ polling = 0
    /\ borrow = "free"
    /\ panicked = FALSE
    /\ startedOrder = <<>>
    /\ resolvedOrder = <<>>
    /\ observed = None

\* AuthClient::new: the configuration is stored, the session cell is empty
Init ==
    /\ project_url \in ProjectUrls
    /\ api_key \in ApiKeys
    /\ jwt_secret \in JwtSecrets
    /\ session = None
    /\ last = [op |-> "new", arg |-> "", bearer |-> <<>>, status |-> 0,
               body |-> NoBody, io |-> "none", pre |-> None,
               result |-> Ok("AuthClient"), sent |-> 0]
    /\ lastAuth = None
    /\ ConcIdle

\* the operations that authenticate or refresh, and return a session
AuthOps ==
    {"login_with_email", "login_with_phone", "login_anonymously",
     "login_with_id_token", "verify_otp", "exchange_token_for_session",
     "refresh_session"}

\* One call of operation op: the handler's outcome `out` becomes the state.
Call(op, arg, bearer, x, sent, out) ==
    /\ session' = out.session
    /\ last' = [op |-> op, arg |-> arg, bearer |-> bearer, status |-> x.status,
                body |-> x.body, io |-> x.io, pre |-> session,
                result |-> out.result, sent |-> sent]
    /\ lastAuth' = IF op \in AuthOps /\ out.result.kind = "Ok"
                   THEN out.result.value
                   ELSE IF op = "logout" /\ out.result.kind = "Ok"
                   THEN None
                   ELSE lastAuth
    /\ UNCHANGED <<project_url, api_key, jwt_secret>>
    /\ UNCHANGED concVars

login_with_email ==
    \E x \in Attempts(HeaderValueOk(api_key), TRUE) :
        Call("login_with_email", "", <<>>, x,
             Sent(HeaderValueOk(api_key), x.io),
             Run(HeaderValueOk(api_key), x.io, session,
                 login_with_email_resolve(session, x.status, x.body)))

login_with_phone ==
    \E x \in Attempts(HeaderValueOk(api_key), TRUE) :
        Call("login_with_phone", "", <<>>, x,
             Sent(HeaderValueOk(api_key), x.io),
             Run(HeaderValueOk(api_key), x.io, session,
                 login_with_phone_resolve(session, x.status, x.body)))

sign_up_with_email_and_password ==
    \E x \in Attempts(HeaderValueOk(api_key), TRUE) :
        Call("sign_up_with_email_and_password", "", <<>>, x,
             Sent(HeaderValueOk(api_key), x.io),
             Run(HeaderValueOk(api_key), x.io, session,
                 sign_up_with_email_and_password_resolve(session, x.status, x.body)))

sign_up_with_phone_and_password ==
    \E x \in Attempts(HeaderValueOk(api_key), TRUE) :
        Call("sign_up_with_phone_and_password", "", <<>>, x,
             Sent(HeaderValueOk(api_key), x.io),
             Run(HeaderValueOk(api_key), x.io, session,
                 sign_up_with_phone_and_password_resolve(session, x.status, x.body)))

login_anonymously ==
    \E x \in Attempts(HeaderValueOk(api_key), TRUE) :
        Call("login_anonymously", "", <<>>, x,
             Sent(HeaderValueOk(api_key), x.io),
             Run(HeaderValueOk(api_key), x.io, session,
                 login_anonymously_resolve(session, x.status, x.body)))

send_login_email_with_magic_link ==
    \E x \in Attempts(HeaderValueOk(api_key), TRUE) :
        Call("send_login_email_with_magic_link", "", <<>>, x,
             Sent(HeaderValueOk(api_key), x.io),
             Run(HeaderValueOk(api_key), x.io, session,
                 send_login_email_with_magic_link_resolve(session, x.status, x.body)))

send_sms_with_otp ==
    \E x \in Attempts(HeaderValueOk(api_key), TRUE) :
        Call("send_sms_with_otp", "", <<>>, x,
             Sent(HeaderValueOk(api_key), x.io),
             Run(HeaderValueOk(api_key), x.io, session,
                 send_sms_with_otp_resolve(session, x.status, x.body)))

send_email_with_otp ==
    \E x \in Attempts(HeaderValueOk(api_key), TRUE) :
        Call("send_email_with_otp", "", <<>>, x,
             Sent(HeaderValueOk(api_key), x.io),
             Run(HeaderValueOk(api_key), x.io, session,
                 send_email_with_otp_resolve(session, x.status, x.body)))

get_user ==
    \E bearer_token \in BearerTokens :
      \E x \in Attempts(HeaderValueOk(api_key) /\ BearerHeaderOk(bearer_token), FALSE) :
        Call("get_user", "", bearer_token, x,
             Sent(HeaderValueOk(api_key) /\ BearerHeaderOk(bearer_token), x.io),
             Run(HeaderValueOk(api_key) /\ BearerHeaderOk(bearer_token), x.io,
                 session, get_user_resolve(session, x.status, x.body)))

update_user ==
    \E bearer_token \in BearerTokens :
      \E x \in Attempts(HeaderValueOk(api_key) /\ BearerHeaderOk(bearer_token), TRUE) :
        Call("update_user", "", bearer_token, x,
             Sent(HeaderValueOk(api_key) /\ BearerHeaderOk(bearer_token), x.io),
             Run(HeaderValueOk(api_key) /\ BearerHeaderOk(bearer_token), x.io,
                 session, update_user_resolve(session, x.status, x.body)))

login_with_id_token ==
    \E x \in Attempts(HeaderValueOk(api_key), TRUE) :
        Call("login_with_id_token", "", <<>>, x,
             Sent(HeaderValueOk(api_key), x.io),
             Run(HeaderValueOk(api_key), x.io, session,
                 login_with_id_token_resolve(session, x.status, x.body)))

invite_user_by_email ==
    \E bearer_token \in BearerTokens :
      \E x \in Attempts(HeaderValueOk(api_key) /\ BearerHeaderOk(bearer_token), TRUE) :
        Call("invite_user_by_email", "", bearer_token, x,
             Sent(HeaderValueOk(api_key) /\ BearerHeaderOk(bearer_token), x.io),
             Run(HeaderValueOk(api_key) /\ BearerHeaderOk(bearer_token), x.io,
                 session, invite_user_by_email_resolve(session, x.status, x.body)))

verify_otp ==
    \E x \in Attempts(HeaderValueOk(api_key), TRUE) :
        Call("verify_otp", "", <<>>, x,
             Sent(HeaderValueOk(api_key), x.io),
             Run(HeaderValueOk(api_key), x.io, session,
                 verify_otp_resolve(session, x.status, x.body)))

get_health ==
    \E x \in Attempts(HeaderValueOk(api_key), FALSE) :
        Call("get_health", "", <<>>, x,
             Sent(HeaderValueOk(api_key), x.io),
             Run(HeaderValueOk(api_key), x.io, session,
                 get_health_resolve(session, x.status, x.body)))

get_settings ==
    \E x \in Attempts(HeaderValueOk(api_key), FALSE) :
        Call("get_settings", "", <<>>, x,
             Sent(HeaderValueOk(api_key), x.io),
             Run(HeaderValueOk(api_key), x.io, session,
                 get_settings_resolve(session, x.status, x.body)))

exchange_token_for_session ==
    \E refresh_token \in RefreshTokens :
      \E x \in Attempts(HeaderValueOk(api_key), TRUE) :
        LET call == exchange_token_for_session_call(
                        project_url, api_key, session, refresh_token, x)
        IN  Call("exchange_token_for_session", call.arg, <<>>, x,
                 call.sent, call.out)

\* refresh_session: self.exchange_token_for_session(refresh_token).await
refresh_session ==
    \E refresh_token \in RefreshTokens :
      \E x \in Attempts(HeaderValueOk(api_key), TRUE) :
        LET call == refresh_session_call(
                        project_url, api_key, session, refresh_token, x)
        IN  Call("refresh_session", call.arg, <<>>, x, call.sent, call.out)

reset_password_for_email ==
    \E x \in Attempts(HeaderValueOk(api_key), TRUE) :
        Call("reset_password_for_email", "", <<>>, x,
             Sent(HeaderValueOk(api_key), x.io),
             Run(HeaderValueOk(api_key), x.io, session,
                 reset_password_for_email_resolve(session, x.status, x.body)))

resend ==
    \E x \in Attempts(HeaderValueOk(api_key), TRUE) :
        Call("resend", "", <<>>, x,
             Sent(HeaderValueOk(api_key), x.io),
             Run(HeaderValueOk(api_key), x.io, session,
                 resend_resolve(session, x.status, x.body)))

logout ==
    \E scope \in Scopes, bearer_token \in BearerTokens :
      \E x \in Attempts(HeaderValueOk(api_key) /\ BearerHeaderOk(bearer_token), TRUE) :
        Call("logout", scope, bearer_token, x,
             Sent(HeaderValueOk(api_key) /\ BearerHeaderOk(bearer_token), x.io),
             Run(HeaderValueOk(api_key) /\ BearerHeaderOk(bearer_token), x.io,
                 session, logout_resolve(session, x.status, x.body)))

\* sso: url is response.url(), the URL the exchange ended at
sso ==
    \E url \in Urls :
      \E x \in Attempts(HeaderValueOk(api_key), TRUE) :
        Call("sso", IF x.io = "ok" THEN url ELSE "", <<>>, x,
             Sent(HeaderValueOk(api_key), x.io),
             Run(HeaderValueOk(api_key), x.io, session,
                 sso_resolve(session, x.status, x.body, url)))

login_with_oauth ==
    \E provider \in Providers, options \in OAuthOptionArgs :
        Call("login_with_oauth", [provider |-> provider, options |-> options],
             <<>>, Exchange("none", 0, NoBody), 0,
             Out(login_with_oauth_result(project_url, provider, options), session))

\* sign_up_with_oauth: self.login_with_oauth(provider, options)
sign_up_with_oauth ==
    \E provider \in Providers, options \in OAuthOptionArgs :
        Call("sign_up_with_oauth", [provider |-> provider, options |-> options],
             <<>>, Exchange("none", 0, NoBody), 0,
             Out(login_with_oauth_result(project_url, provider, options), session))

\* new_from_env: a client built from the environment takes the place of
\* the client; when a variable cannot be read no client is built
new_from_env ==
    \E env \in Environments :
        LET result == new_from_env_result(env)
        IN  /\ last' = [op |-> "new_from_env", arg |-> env, bearer |-> <<>>,
                        status |-> 0, body |-> NoBody, io |-> "none",
                        pre |-> session, result |-> result, sent |-> 0]
            /\ IF result.kind = "Ok"
               THEN /\ project_url' = env.SUPABASE_URL.value
                    /\ api_key' = env.SUPABASE_API_KEY.value
                    /\ jwt_secret' = env.SUPABASE_JWT_SECRET.value
                    /\ session' = None
                    /\ lastAuth' = None
               ELSE UNCHANGED <<project_url, api_key, jwt_secret, session,
                                lastAuth>>
            /\ UNCHANGED concVars

Next ==
    \/ login_with_email
    \/ login_with_phone
    \/ sign_up_with_email_and_password
    \/ sign_up_with_phone_and_password
    \/ login_anonymously
    \/ send_login_email_with_magic_link
    \/ send_sms_with_otp
    \/ send_email_with_otp
    \/ get_user
    \/ update_user
    \/ login_with_id_token
    \/ invite_user_by_email
    \/ verify_otp
    \/ get_health
    \/ get_settings
    \/ exchange_token_for_session
    \/ refresh_session
    \/ reset_password_for_email
    \/ resend
    \/ logout
    \/ sso

\* the operations that exchange a request and a response with the server
Spec == Init /\ [][Next]_vars

NextOAuth ==
    \/ login_with_oauth
    \/ sign_up_with_oauth

\* the operations that build the provider's URL
SpecOAuth == Init /\ [][NextOAuth]_vars

NextCalls ==
    \/ Next
    \/ NextOAuth

\* every operation of a constructed client
SpecCalls == Init /\ [][NextCalls]_vars

NextEnv == new_from_env

\* construction from the environment
SpecEnv == Init /\ [][NextEnv]_vars

(***************************************************************************)
(* Handlers in flight together.  A handler is a future over &AuthClient:   *)
(* it runs when polled, from one await to the next, and no other future of *)
(* the client runs meanwhile (RefCell makes AuthClient !Sync, so these     *)
(* futures stay on one thread).  Its awaits are send() and text().         *)
(***************************************************************************)
\* the session-mutating operations run together
ConcOps == {"login_with_email", "login_with_phone", "logout"}

\* answers of the server to them
ConcStatuses == {200, 404}

ConcBodies == { b \in Bodies : b.session # Fail \/ b.error # Fail }

\* the resolution of operation op
ConcResolve(op, cur, status, body) ==
    CASE op = "login_with_email" -> login_with_email_resolve(cur, status, body)
      [] op = "login_with_phone" -> login_with_phone_resolve(cur, status, body)
      [] op = "logout" -> logout_resolve(cur, status, body)

\* a handler that takes the RefMut before it awaits the body
borrow_point_early(op) == "before_text"

\* where a handler calls self.session.borrow_mut(): in the statement that
\* writes the cell, after the last await
borrow_point(op) == "write"

\* self.session.borrow_mut() by the task being polled
BorrowMut ==
    IF borrow = "free"
    THEN borrow' = "mut" /\ UNCHANGED panicked
    ELSE panicked' = TRUE /\ UNCHANGED borrow

InitConc ==
    /\ project_url = <<104, 58, 47, 47, 112>>
    /\ api_key = <<107, 101, 121>>
    /\ jwt_secret \in JwtSecrets
    /\ session = None
    /\ last = [op |-> "new", arg |-> "", bearer |-> <<>>, status |-> 0,
               body |-> NoBody, io |-> "none", pre |-> None,
               result |-> Ok("AuthClient"), sent |-> 0]
    /\ lastAuth = None
    /\ ConcIdle

\* the first poll of a handler: headers, payload, send(), up to the await
Start(t) ==
    /\ polling = 0 /\ ~panicked
    /\ tasks[t].pc = "idle"
    /\ \E op \in ConcOps, bearer_token \in BearerTokens, ser \in BOOLEAN :
          /\ op # "logout" => bearer_token = <<116, 111, 107>>
          /\ tasks' = [tasks EXCEPT ![t] =
                IF ~(HeaderValueOk(api_key)
                       /\ (op = "logout" => BearerHeaderOk(bearer_token)))
                THEN [@ EXCEPT !.op = op, !.bearer = bearer_token,
                               !.pc = "done", !.result = HeaderError]
                ELSE IF ~ser
                THEN [@ EXCEPT !.op = op, !.bearer = bearer_token,
                               !.pc = "done", !.result = SerdeError]
                ELSE [@ EXCEPT !.op = op, !.bearer = bearer_token,
                               !.pc = "awaiting_send"]]
    /\ startedOrder' = Append(startedOrder, t)
    /\ UNCHANGED <<project_url, api_key, jwt_secret, session, last, lastAuth,
                   polling, borrow, panicked, resolvedOrder, observed>>

\* send().await returns: an error, or the response with its status; the
\* handler goes on to text() and awaits again
SendCompletes(t) ==
    /\ polling = 0 /\ ~panicked
    /\ tasks[t].pc = "awaiting_send"
    /\ \/ /\ tasks' = [tasks EXCEPT ![t].pc = "done",
                                     ![t].result = TransportError]
          /\ UNCHANGED <<borrow, panicked>>
       \/ \E status \in ConcStatuses :
            /\ tasks' = [tasks EXCEPT ![t].pc = "awaiting_text",
                                       ![t].status = status]
            /\ IF borrow_point(tasks[t].op) = "before_text"
               THEN BorrowMut
               ELSE UNCHANGED <<borrow, panicked>>
    /\ UNCHANGED <<project_url, api_key, jwt_secret, session, last, lastAuth,
                   polling, startedOrder, resolvedOrder, observed>>

\* text().await returns: an error, or the body; with the body the handler
\* is polled through its resolution
TextCompletes(t) ==
    /\ polling = 0 /\ ~panicked
    /\ tasks[t].pc = "awaiting_text"
    /\ \/ /\ tasks' = [tasks EXCEPT ![t].pc = "done",
                                     ![t].result = TransportError]
          /\ borrow' = IF borrow_point(tasks[t].op) = "before_text"
                       THEN "free" ELSE borrow
          /\ UNCHANGED <<polling, resolvedOrder>>
       \/ \E body \in ConcBodies :
            /\ tasks' = [tasks EXCEPT ![t].pc = "resolving", ![t].body = body]
            /\ polling' = t
            /\ resolvedOrder' = Append(resolvedOrder, t)
            /\ UNCHANGED borrow
    /\ UNCHANGED <<project_url, api_key, jwt_secret, session, last, lastAuth,
                   panicked, startedOrder, observed>>

\* the parses of the body: an error is returned at once, a success goes
\* on to the statement that writes the cell
Resolve(t) ==
    /\ polling = t /\ ~panicked
    /\ tasks[t].pc = "resolving"
    /\ LET out == ConcResolve(tasks[t].op, session, tasks[t].status,
                              tasks[t].body)
       IN  IF out.result.kind = "Ok"
           THEN /\ tasks' = [tasks EXCEPT ![t].pc = "writing"]
                /\ IF borrow_point(tasks[t].op) = "write"
                   THEN BorrowMut
                   ELSE UNCHANGED <<borrow, panicked>>
                /\ UNCHANGED polling
           ELSE /\ tasks' = [tasks EXCEPT ![t].pc = "done",
                                          ![t].result = out.result]
                /\ borrow' = IF borrow_point(tasks[t].op) = "before_text"
                             THEN "free" ELSE borrow
                /\ polling' = 0
                /\ UNCHANGED panicked
    /\ UNCHANGED <<project_url, api_key, jwt_secret, session, last, lastAuth,
                   startedOrder, resolvedOrder, observed>>

\* *self.session.borrow_mut() = ..: the cell is written, the RefMut is
\* dropped at the end of the statement, and the handler returns
Write(t) ==
    /\ polling = t /\ ~panicked
    /\ tasks[t].pc = "writing"
    /\ LET out == ConcResolve(tasks[t].op, session, tasks[t].status,
                              tasks[t].body)
       IN  /\ session' = out.session
           /\ tasks' = [tasks EXCEPT ![t].pc = "done",
                                      ![t].result = out.result]
    /\ borrow' = "free"
    /\ polling' = 0
    /\ UNCHANGED <<project_url, api_key, jwt_secret, last, lastAuth,
                   panicked, startedOrder, resolvedOrder, observed>>

\* the caller reads session() while no handler is being polled
session_read ==
    /\ polling = 0 /\ ~panicked
    /\ IF borrow = "mut"
       THEN panicked' = TRUE /\ UNCHANGED observed
       ELSE observed' = session /\ UNCHANGED panicked
    /\ UNCHANGED <<project_url, api_key, jwt_secret, session, last, lastAuth,
                   tasks, polling, borrow, startedOrder, resolvedOrder>>

NextConc ==
    \/ \E t \in Tasks : Start(t)
    \/ \E t \in Tasks : SendCompletes(t)
    \/ \E t \in Tasks : TextCompletes(t)
    \/ \E t \in Tasks : Resolve(t)
    \/ \E t \in Tasks : Write(t)
    \/ session_read

SpecConc == InitConc /\ [][NextConc]_vars

(***************************************************************************)
(* Properties                                                              *)
(***************************************************************************)
\* the last call read a response (status and body) in full
Responded == last.io = "ok"

\* the operations that expect a JSON success shape
JsonOps ==
    {"login_with_email", "login_with_phone", "login_anonymously",
     "login_with_id_token", "sign_up_with_email_and_password",
     "sign_up_with_phone_and_password", "send_sms_with_otp",
     "send_email_with_otp", "get_user", "update_user",
     "invite_user_by_email", "verify_otp", "get_health", "get_settings",
     "exchange_token_for_session", "refresh_session"}

\* the operations whose success carries no content
NoContentOps ==
    {"send_login_email_with_magic_link", "reset_password_for_email",
     "resend", "logout"}

\* every operation that performs an HTTP exchange
NetworkOps == JsonOps \cup NoContentOps \cup {"sso"}

\* the logins that cache the session they return
LoginOps ==
    {"login_with_email", "login_with_phone", "login_anonymously",
     "login_with_id_token"}

\* body parses as the success shape that operation op expects
ParsesAsSuccess(op, body) ==
    CASE op \in {"login_with_email", "login_with_phone", "login_anonymously",
                 "login_with_id_token", "sign_up_with_phone_and_password",
                 "verify_otp", "exchange_token_for_session", "refresh_session"}
            -> body.session # Fail
      [] op = "sign_up_with_email_and_password"
            -> body.session # Fail \/ body.confirmation # Fail
      [] op \in {"send_sms_with_otp", "send_email_with_otp"} -> body.otp # Fail
      [] op \in {"get_user", "update_user", "invite_user_by_email"}
            -> body.user # Fail
      [] op = "get_health" -> body.health # Fail
      [] op = "get_settings" -> body.settings # Fail
      [] OTHER -> FALSE

\* body is the error envelope and nothing else: {"message": "X"}
EnvelopeOnly(body) ==
    /\ body.error # Fail
    /\ body.session = Fail /\ body.user = Fail /\ body.confirmation = Fail
    /\ body.otp = Fail /\ body.health = Fail /\ body.settings = Fail

\* body is not JSON: no parse of it succeeds
NotJson(body) ==
    /\ body.error = Fail
    /\ body.session = Fail /\ body.user = Fail /\ body.confirmation = Fail
    /\ body.otp = Fail /\ body.health = Fail /\ body.settings = Fail

\* C1: every operation that expects a JSON success shape returns success
\* whenever the body parses as that shape, whatever the status code.
C1_SuccessShapeWins ==
    (Responded /\ last.op \in JsonOps /\ ParsesAsSuccess(last.op, last.body))
        => last.result.kind = "Ok"

\* C2: the cached session, if present, is the session returned by the most
\* recent successful authentication or refresh call not followed by a
\* successful logout.
C2_CachedIsLatestAuth ==
    session # None => session = lastAuth

\* C3: after a successful login_with_email, login_with_phone,
\* login_anonymously or login_with_id_token, session() is the session the
\* call returned and is_authenticated() is true, whatever was cached before.
C3_LoginCachesSession ==
    (last.op \in LoginOps /\ last.result.kind = "Ok")
        => (session_get = last.result.value /\ is_authenticated)

\* a login succeeded over an older, different cached session
C3_Witness ==
    /\ last.op = "login_with_phone" /\ last.result.kind = "Ok"
    /\ last.pre # None /\ last.pre # last.result.value
    /\ session_get = last.result.value

\* C4: after verify_otp returns Ok(session), session() is that session and
\* is_authenticated() is true.
C4_VerifyOtpCachesSession ==
    (last.op = "verify_otp" /\ last.result.kind = "Ok")
        => (session_get = last.result.value /\ is_authenticated)

\* C5: after a successful logout session() is None and is_authenticated()
\* is false, whatever was cached and whatever token and scope were passed.
C5_LogoutClearsSession ==
    (last.op = "logout" /\ last.result.kind = "Ok")
        => (session_get = None /\ ~is_authenticated)

\* a logout with a scope succeeded while a session was cached
C5_Witness ==
    /\ last.op = "logout" /\ last.result.kind = "Ok"
    /\ last.pre # None /\ last.arg = "global"
    /\ session_get = None

\* C6 as stated: for every network operation, a non-2xx status with the
\* envelope {"message":"X"} as body fails with AuthError(status, "X").
C6_EnvelopeErrorAnyNon2xx ==
    (Responded /\ last.op \in NetworkOps /\ ~is_success(last.status)
        /\ EnvelopeOnly(last.body))
        => last.result = AuthError(last.status, last.body.error)

\* C6 amended: the same for every network operation other than sso at any
\* non-2xx status, and for sso at a 4xx or 5xx status.
C6_EnvelopeError ==
    (Responded /\ last.op \in NetworkOps /\ ~is_success(last.status)
        /\ EnvelopeOnly(last.body)
        /\ (last.op = "sso" =>
                is_client_error(last.status) \/ is_server_error(last.status)))
        => last.result = AuthError(last.status, last.body.error)

\* get_health and sso each answered 5xx with an envelope
C6_Witness ==
    /\ Responded /\ last.op \in {"get_health", "sso"}
    /\ last.status = 500 /\ EnvelopeOnly(last.body)
    /\ last.result.kind = "AuthError" /\ last.result.message = "X"

\* C7 as stated: for every network operation, a non-2xx status with a body
\* that is not JSON fails with AuthError(status, raw body text).
C7_RawErrorAnyNon2xx ==
    (Responded /\ last.op \in NetworkOps /\ ~is_success(last.status)
        /\ NotJson(last.body))
        => last.result = AuthError(last.status, last.body.text)

\* C7 amended: the same for every network operation other than sso at any
\* non-2xx status, and for sso at a 4xx or 5xx status.
C7_RawError ==
    (Responded /\ last.op \in NetworkOps /\ ~is_success(last.status)
        /\ NotJson(last.body)
        /\ (last.op = "sso" =>
                is_client_error(last.status) \/ is_server_error(last.status)))
        => last.result = AuthError(last.status, last.body.text)

\* resend answered 404 with a body that is not JSON
C7_Witness ==
    /\ Responded /\ last.op = "resend" /\ last.status = 404
    /\ NotJson(last.body)
    /\ last.result.kind = "AuthError"
    /\ last.result.message = "<html>oops</html>"

\* C8: for every operation that expects a JSON success shape and every
\* status, a body that parses neither as the success shape nor as the
\* envelope fails with AuthError(status, raw body text).
C8_FallbackAnyStatus ==
    (Responded /\ last.op \in JsonOps /\ ~ParsesAsSuccess(last.op, last.body)
        /\ last.body.error = Fail)
        => last.result = AuthError(last.status, last.body.text)

\* C9: the no-content operations resolve by status: Ok(()) on every 2xx
\* whatever the body, AuthError(status, envelope message or raw body)
\* on every other status.
C9_NoContentByStatus ==
    (Responded /\ last.op \in NoContentOps)
        => IF is_success(last.status)
           THEN last.result = Ok("()")
           ELSE last.result =
                    AuthError(last.status,
                              IF last.body.error # Fail THEN last.body.error
                              ELSE last.body.text)

\* reset_password_for_email answered 2xx with an error envelope as body
C9_Witness ==
    /\ Responded /\ last.op = "reset_password_for_email"
    /\ last.status = 200 /\ last.body.error # Fail
    /\ last.result.kind = "Ok"

\* C10: get_user, get_health and get_settings, succeeding or failing, and
\* sign_up_with_email_and_password returning ConfirmationResult leave the
\* cached session as it was.
C10_ReadOnlyKeepsSession ==
    /\ last.op \in {"get_user", "get_health", "get_settings"}
         => session_get = last.pre
    /\ (last.op = "sign_up_with_email_and_password"
          /\ last.result.variant = "ConfirmationResult")
         => session_get = last.pre

\* get_user failed with an AuthError while a session was cached
C10_Witness ==
    /\ last.op = "get_user" /\ last.result.kind = "AuthError"
    /\ last.pre # None /\ session_get = last.pre

(***************************************************************************)
(* Reading a query string back                                             *)
(***************************************************************************)
\* index of the first occurrence of byte sep in str, 0 when there is none
FirstIndex(str, sep) ==
    IF \E i \in DOMAIN str : str[i] = sep
    THEN CHOOSE i \in DOMAIN str :
            str[i] = sep /\ \A j \in 1..(i - 1) : str[j] # sep
    ELSE 0

\* str cut at every occurrence of byte sep
RECURSIVE Segments(_, _)
Segments(str, sep) ==
    IF FirstIndex(str, sep) = 0 THEN <<str>>
    ELSE <<SubSeq(str, 1, FirstIndex(str, sep) - 1)>>
         \o Segments(SubSeq(str, FirstIndex(str, sep) + 1, Len(str)), sep)

\* value of a hexadecimal digit
HexValue(b) == IF b <= 57 THEN b - 48 ELSE b - 55

\* percent-decoding of a form-urlencoded component
RECURSIVE Decode(_)
Decode(str) ==
    IF str = <<>> THEN <<>>
    ELSE IF str[1] = 43 THEN <<32>> \o Decode(Tail(str))
    ELSE IF str[1] = 37 /\ Len(str) >= 3
    THEN <<16 * HexValue(str[2]) + HexValue(str[3])>>
         \o Decode(SubSeq(str, 4, Len(str)))
    ELSE <<str[1]>> \o Decode(Tail(str))

\* the (name, value) pairs of a query string, in order
QueryPairs(query) ==
    LET segs == SelectSeq(Segments(query, 38), LAMBDA seg : seg # <<>>)
    IN  [i \in DOMAIN segs |->
            LET eq == FirstIndex(segs[i], 61)
            IN  IF eq = 0 THEN <<Decode(segs[i]), <<>>>>
                ELSE <<Decode(SubSeq(segs[i], 1, eq - 1)),
                       Decode(SubSeq(segs[i], eq + 1, Len(segs[i])))>>]

\* the elements of a sequence
Range(seq) == { seq[i] : i \in DOMAIN seq }

\* C11: login_with_oauth with provider X and no options yields a URL whose
\* query string is exactly provider=X; with redirect_to and query_params
\* supplied the query holds provider, email_redirect_to and every extra
\* key/value, none dropped and no parameter name twice, for every set of
\* extra keys.
C11_OAuthQueryExact ==
    (last.op = "login_with_oauth" /\ last.result.kind = "Ok")
        => LET query == last.result.value.url.query
               pairs == QueryPairs(query)
               X == ProviderToString(last.arg.provider)
               options == last.arg.options
           IN  /\ options = NoneOpt => query = KeyProvider \o <<61>> \o X
               /\ (/\ options # NoneOpt
                   /\ options[1].redirect_to # NoneOpt
                   /\ options[1].query_params # NoneOpt)
                    => /\ <<KeyProvider, X>> \in Range(pairs)
                       /\ <<KeyEmailRedirectTo, options[1].redirect_to[1]>>
                              \in Range(pairs)
                       /\ Range(options[1].query_params[1]) \subseteq Range(pairs)
                       /\ \A i, j \in DOMAIN pairs :
                              i # j => pairs[i][1] # pairs[j][1]

\* C12: when options.scopes is supplied to login_with_oauth, the query
\* string of the returned URL carries the scopes value.
C12_OAuthCarriesScopes ==
    (/\ last.op = "login_with_oauth" /\ last.result.kind = "Ok"
     /\ last.arg.options # NoneOpt
     /\ last.arg.options[1].scopes # NoneOpt)
        => \E pair \in Range(QueryPairs(last.result.value.url.query)) :
               pair[2] = last.arg.options[1].scopes[1]

\* C13: sso resolves by status, not by body: an AuthError (the response's
\* status; the envelope's message, else the raw body) exactly when the
\* final status is 4xx or 5xx, and Ok(final URL) for every other status
\* whatever the body.
C13_SsoByStatus ==
    (Responded /\ last.op = "sso")
        => IF (last.status >= 400 /\ last.status < 600)
           THEN last.result =
                    AuthError(last.status,
                              IF last.body.error # Fail THEN last.body.error
                              ELSE last.body.text)
           ELSE last.result = Ok(last.arg)

\* sso answered 302 with an error envelope as body and returned the URL
C13_Witness ==
    /\ Responded /\ last.op = "sso" /\ last.status = 302
    /\ last.body.error # Fail
    /\ last.result = Ok("https://idp/login")

\* the operations that build a URL and perform no exchange
OAuthOps == {"login_with_oauth", "sign_up_with_oauth"}

BearerOps == {"get_user", "update_user", "invite_user_by_email", "logout"}

\* str holds a byte that no header value may hold
InvalidHeaderBytes(str) ==
    \E i \in DOMAIN str : (str[i] < 32 /\ str[i] # 9) \/ str[i] = 127

\* C15: when the API key, or the bearer token passed to the operation,
\* holds a byte invalid in a header value, the operation returns the
\* header error, no request has been sent and the cached session is as it
\* was.
C15_HeaderErrorBeforeSend ==
    (/\ last.op \in NetworkOps
     /\ \/ InvalidHeaderBytes(api_key)
        \/ (last.op \in BearerOps /\ InvalidHeaderBytes(last.bearer)))
        => /\ last.result = HeaderError
           /\ last.sent = 0
           /\ session_get = last.pre

\* get_user was given a bearer token with a carriage return, the API key
\* being valid and a session cached
C15_Witness ==
    /\ last.op = "get_user" /\ InvalidHeaderBytes(last.bearer)
    /\ ~InvalidHeaderBytes(api_key)
    /\ last.pre # None
    /\ last.result.kind = "InvalidHeaderValue" /\ last.sent = 0

\* C17: an operation that returns an error leaves the cached session as it
\* was: a failed login does not drop it, a logout answered non-2xx does
\* not clear it.
C17_FailureKeepsSession ==
    (last.op \in NetworkOps \cup OAuthOps /\ last.result.kind # "Ok")
        => session_get = last.pre

\* logout was answered 500 while a session was cached
C17_Witness ==
    /\ last.op = "logout" /\ Responded /\ last.status = 500
    /\ last.result.kind = "AuthError"
    /\ last.pre # None /\ session_get = last.pre

\* C19: a sign-up that returns an active session does not touch the cache.
C19_SignUpKeepsSession ==
    /\ (last.op = "sign_up_with_email_and_password"
          /\ last.result.variant = "SessionResult")
         => (session_get = last.pre /\ is_authenticated = (last.pre # None))
    /\ (last.op = "sign_up_with_phone_and_password"
          /\ last.result.kind = "Ok")
         => (session_get = last.pre /\ is_authenticated = (last.pre # None))

\* sign_up_with_phone_and_password returned a session on a client without
\* one, which is still unauthenticated
C19_Witness ==
    /\ last.op = "sign_up_with_phone_and_password"
    /\ last.result.kind = "Ok" /\ last.result.value = "s1"
    /\ last.pre = None /\ ~is_authenticated

\* the required variables that new_from_env cannot read in env
Unreadable(env) ==
    { name \in {"SUPABASE_URL", "SUPABASE_API_KEY", "SUPABASE_JWT_SECRET"} :
        env[name].state # "set" }

\* C16: new_from_env fails when any one of SUPABASE_URL, SUPABASE_API_KEY,
\* SUPABASE_JWT_SECRET is absent and the error tells which one: the errors
\* for two different absent variables differ; with all three present it
\* succeeds with those values and no cached session.
C16_EnvFailsDistinctly ==
    last.op = "new_from_env"
        => /\ Unreadable(last.arg) # {} => last.result.kind # "Ok"
           /\ Unreadable(last.arg) = {}
                => /\ last.result.kind = "Ok"
                   /\ project_url = last.arg.SUPABASE_URL.value
                   /\ api_key = last.arg.SUPABASE_API_KEY.value
                   /\ jwt_secret = last.arg.SUPABASE_JWT_SECRET.value
                   /\ session_get = None
           /\ \A other \in Environments :
                (/\ Cardinality(Unreadable(last.arg)) = 1
                 /\ Cardinality(Unreadable(other)) = 1
                 /\ last.arg[CHOOSE n \in Unreadable(last.arg) : TRUE].state = "unset"
                 /\ other[CHOOSE n \in Unreadable(other) : TRUE].state = "unset"
                 /\ Unreadable(other) # Unreadable(last.arg))
                    => new_from_env_result(other) # last.result

\* C20: refresh_session is exchange_token_for_session under another name:
\* for the same refresh token, response and client state it sends the same
\* request, returns the same result and leaves the same cached session.
C20_RefreshIsExchange ==
    last.op = "refresh_session"
        => LET call == exchange_token_for_session_call(
                           project_url, api_key, last.pre,
                           last.arg.refresh_token,
                           Exchange(last.io, last.status, last.body))
           IN  /\ last.arg.request = call.arg.request
               /\ last.sent = call.sent
               /\ last.result = call.out.result
               /\ session_get = call.out.session

\* refresh_session returned a session other than the cached one, after
\* sending its request
C20_Witness ==
    /\ last.op = "refresh_session" /\ last.result.kind = "Ok"
    /\ last.arg.request # NoneOpt
    /\ last.pre # None /\ last.result.value # last.pre
    /\ session_get = last.pre

\* what a returned handler has written to the cell: nothing, or one value
WriteOf(task) ==
    IF task.result.kind # "Ok" THEN <<>>
    ELSE IF task.op = "logout" THEN <<None>>
    ELSE <<task.result.value>>

\* the tasks that wrote the cell, in the order their responses were resolved
Writers == SelectSeq(resolvedOrder, LAMBDA t : WriteOf(tasks[t]) # <<>>)

\* every task has been started and has returned
AllDone == \A t \in Tasks : tasks[t].pc = "done"

\* C18: with several logins and logouts in flight on one client, the cell
\* is borrowed only between await points and no borrow panics; the cached
\* session is always None or the whole session of one response that a
\* login has returned; once all have returned it is the value written
\* by the operation whose response was resolved last.
C18_InterleavedWrites ==
    /\ ~panicked
    /\ polling = 0 => borrow = "free"
    /\ session # None =>
          \E t \in Tasks : /\ tasks[t].result.kind = "Ok"
                           /\ tasks[t].op # "logout"
                           /\ session = tasks[t].body.session
    /\ AllDone =>
          session = IF Writers = <<>> THEN None
                    ELSE WriteOf(tasks[Writers[Len(Writers)]])[1]

\* two logins returned different sessions; the one started last was
\* resolved first, and the cache holds the session of the other
C18_Witness ==
    /\ AllDone /\ ~panicked
    /\ startedOrder = <<1, 2>> /\ resolvedOrder = <<2, 1>>
    /\ tasks[1].op = "login_with_email" /\ tasks[2].op = "login_with_phone"
    /\ tasks[1].result.kind = "Ok" /\ tasks[2].result.kind = "Ok"
    /\ tasks[1].result.value # tasks[2].result.value
    /\ session = tasks[1].result.value

====
